---- MODULE Spec2Model ----
(***************************************************************************)
(* stlog: a logging.Handler that stores every log record as a row of the   *)
(* Events table through the process-wide elixir session and falls back to  *)
(* a StreamHandler (STDERR) when the commit fails.                         *)
(*                                                                         *)
(* Conventions.  Python text is a TLA+ string, except where the code looks *)
(* at single characters (asctime, the password given to quote_plus): there *)
(* it is a sequence of one-character strings.  Python's None is the value  *)
(* NoneVal (NonePw for a password), a missing attribute is Absent.         *)
(***************************************************************************)
EXTENDS Naturals, Integers, Sequences, FiniteSets, TLC

VARIABLES
    environ,      \* os.environ: USER and LOGNAME, Unset when not defined
    fs,           \* $ACAREA/<username>.dat for each username: whether it exists, its lines
    dbfiles,      \* the database files that exist (os.path.exists)
    bind,         \* elixir.metadata.bind
    schema,       \* TRUE once elixir.create_all() has run
    initLog,      \* the last call of init: its arguments and its outcome
    inits,        \* number of init calls made
    handlers,     \* logger.handlers: the DatabaseHandler instances attached
    level,        \* logger.level
    getLoggerCalls, \* number of get_logger calls made
    session,      \* elixir.session: the pending (new, unflushed) entries
    db,           \* the logentry table: the committed rows
    stderr,       \* what the fallback StreamHandlers wrote
    pc,           \* position of the (single) thread inside a logging call
    rec,          \* the LogRecord of the current logging call
    hidx,         \* index of the handler whose emit is running
    trace,        \* the steps of the current (or last finished) emit
    emits,        \* number of emits finished for rec
    calls,        \* number of logging calls made
    dispatched,   \* number of emit invocations the logging calls asked for
    ascIn,        \* asctime as rendered by Formatter.formatTime
    ascOut,       \* asctime after the post-processing of format
    ascDone,      \* TRUE once the post-processing has run
    connArgs,     \* arguments of _db_connection_str
    connOut,      \* its result, a sequence of the substituted template pieces
    connDone      \* TRUE once _db_connection_str has returned

envVars  == <<environ, fs, dbfiles>>
initVars == <<bind, schema, initLog, inits>>
logVars  == <<handlers, level, getLoggerCalls>>
emitVars == <<session, db, stderr, pc, rec, hidx, trace, emits, calls, dispatched>>
ascVars  == <<ascIn, ascOut, ascDone>>
connVars == <<connArgs, connOut, connDone>>
vars == <<envVars, initVars, logVars, emitVars, ascVars, connVars>>

(***************************************************************************)
(* Bounds of the model.                                                    *)
(***************************************************************************)
MaxLen      == 5    \* longest rendered asctime tried
MaxPwLen    == 2    \* longest password tried
MaxInits    == 2    \* init calls in one behaviour
MaxHandlers == 2    \* get_logger calls in one behaviour
MaxCalls    == 2    \* logging calls in one behaviour
MaxEmits    == 3    \* emit invocations in one behaviour

NoneVal == "<None>"
Absent  == "<absent>"
Unset   == "<unset>"
NonePw  == <<"<None>">>
Unbound == <<>>

RECURSIVE SeqsUpTo(_, _)
SeqsUpTo(S, n) ==
    IF n = 0 THEN {<<>>}
    ELSE LET shorter == SeqsUpTo(S, n - 1)
         IN  shorter \cup {Append(s, c) : s \in shorter, c \in S}

Last(s) == s[Len(s)]

(***************************************************************************)
(* format, lines 201-203: the comma of "...,123" becomes a period.         *)
(***************************************************************************)
Digits == {"0", "7"}
AscChars == Digits \cup {",", "x"}

MassageAsctime_OffByOne(asctime) ==
    IF Len(asctime) >= 4 /\ asctime[Len(asctime) - 2] = ","
    THEN SubSeq(asctime, 1, Len(asctime) - 4) \o <<".">>
         \o SubSeq(asctime, Len(asctime) - 2, Len(asctime))
    ELSE asctime

MassageAsctime(asctime) ==
    IF Len(asctime) >= 4 /\ asctime[Len(asctime) - 3] = ","
    THEN SubSeq(asctime, 1, Len(asctime) - 4) \o <<".">>
         \o SubSeq(asctime, Len(asctime) - 2, Len(asctime))
    ELSE asctime

(***************************************************************************)
(* _db_connection_str                                                      *)
(***************************************************************************)
Cwd == "/home/op"
AbsPaths == {"/tmp/test.db"}
abspath(p) == IF p \in AbsPaths THEN p ELSE Cwd \o "/" \o p

\* urllib.quote_plus: a space becomes "+", a reserved character is
\* percent-escaped, letters are kept.
QuoteChar(c) ==
    CASE c = " " -> "+"
      [] c = "@" -> "%40"
      [] c = "/" -> "%2F"
      [] OTHER   -> c

RECURSIVE quote_plus(_)
quote_plus(s) ==
    IF s = <<>> THEN "" ELSE QuoteChar(Head(s)) \o quote_plus(Tail(s))

StartsWithMssql == {"mssql", "mssql+pyodbc"}
startswith_mssql(flavor) == flavor \in StartsWithMssql

\* port is 0 for a falsy port (None or 0).
PortInfo(port, has_mssql) ==
    IF port # 0 /\ port # -1 /\ ~has_mssql THEN ":" \o ToString(port)
    ELSE IF port # 0 /\ port # -1 THEN "?port=" \o ToString(port)
    ELSE ""

TemplateTail_PortFirst(has_mssql, db_info, port_info) ==
    <<port_info, db_info>>

TemplateTail(has_mssql, db_info, port_info) ==
    IF has_mssql THEN <<db_info, port_info>> ELSE <<port_info, db_info>>

_db_connection_str(flavor, username, password, server, port, database) ==
    IF flavor = "sqlite"
    THEN <<"sqlite:///", abspath(database)>>
    ELSE LET has_mssql == startswith_mssql(flavor)
             pwd       == quote_plus(password)
             db_info   == "/" \o database
             port_info == PortInfo(port, has_mssql)
         IN  <<flavor, "://", username, ":", pwd, "@", server>>
             \o TemplateTail(has_mssql, db_info, port_info)

(***************************************************************************)
(* init                                                                    *)
(***************************************************************************)
Raise   == "<raise>"
RaisePw == <<"<raise>">>

Users   == {"alice", "bob", "carol"}

\* dict([l.split() for l in open(path)]): every line must split in two.
DictOk(lines) == \A i \in 1..Len(lines) : Len(lines[i]) = 2

HasKey(lines, key) == \E i \in 1..Len(lines) : lines[i][1] = key

\* dict(...)[key]: of two lines with the same key the later one wins.
DictGet(lines, key) ==
    LET i == CHOOSE j \in 1..Len(lines) :
                 /\ lines[j][1] = key
                 /\ \A k \in (j + 1)..Len(lines) : lines[k][1] # key
    IN  lines[i][2]

\* Lines 300-308.
ResolveUsername_NoLogname(username, db_type) ==
    IF username = NoneVal /\ db_type # "sqlite"
    THEN IF environ.USER # Unset THEN environ.USER ELSE Raise
    ELSE username

ResolveUsername(username, db_type) ==
    IF username = NoneVal /\ db_type # "sqlite"
    THEN IF environ.USER # Unset THEN environ.USER
         ELSE IF environ.LOGNAME # Unset THEN environ.LOGNAME
         ELSE Raise
    ELSE username

\* Lines 310-321.
ResolvePassword(server, username, password, db_type) ==
    IF password = NonePw /\ db_type # "sqlite"
    THEN LET file == fs[username]
         IN  IF ~file.exists \/ ~DictOk(file.lines) THEN RaisePw
             ELSE IF ~HasKey(file.lines, server) THEN RaisePw
             ELSE DictGet(file.lines, server)
    ELSE password

InitArgs(server, database, username, password, db_type) ==
    [server |-> server, database |-> database, username |-> username,
     password |-> password, db_type |-> db_type]

init(server, database, username, password, db_type) ==
    LET args == InitArgs(server, database, username, password, db_type)
        user == ResolveUsername(username, db_type)
        pw   == ResolvePassword(server, user, password, db_type)
    IN  /\ inits' = inits + 1
        /\ IF user = Raise \/ pw = RaisePw
           THEN /\ initLog' = [args |-> args, outcome |-> "InvalidConfiguration"]
                /\ UNCHANGED <<bind, schema, dbfiles>>
           ELSE /\ initLog' = [args |-> args, outcome |-> "ok"]
                /\ bind' = _db_connection_str(db_type, user, pw, server, 0, database)
                /\ IF db_type = "sqlite" /\ database \notin dbfiles
                   THEN schema' = TRUE /\ dbfiles' = dbfiles \cup {database}
                   ELSE UNCHANGED <<schema, dbfiles>>
        /\ UNCHANGED <<environ, fs>>

(***************************************************************************)
(* LogRecord, Events and the formatters.                                   *)
(***************************************************************************)
LevelNo == [NOTSET |-> 0, DEBUG |-> 10, WARNING |-> 30, CRITICAL |-> 50]

AbsentDt  == <<>>
AbsentAsc == <<"<absent>">>
LocalHost == "localhost"

\* A byte string with bytes outside ASCII.
NonAsciiStr == {"caf\\xc3\\xa9"}

\* logging.LogRecord as the logging call builds it; hostname comes from
\* extra={'hostname': ...} and is Absent without it.
LogRecord(created, levelname, msg, hostname, exc_info) ==
    [created |-> created, levelname |-> levelname, levelno |-> LevelNo[levelname],
     msg |-> msg, hostname |-> hostname, exc_info |-> exc_info,
     datetime |-> AbsentDt, asctime |-> AbsentAsc, message |-> Absent,
     exception |-> Absent]

NoRec == LogRecord(0, "NOTSET", "", Absent, FALSE)

\* logging.Formatter(fmt): usesTime() is whether fmt contains %(asctime).
DEFAULT_LOG_FMT == [fmt |-> "DEFAULT_LOG_FMT", usesTime |-> TRUE]
MessageOnlyFmt  == [fmt |-> "%(message)s", usesTime |-> FALSE]
NoFormatter     == [fmt |-> "<None>", usesTime |-> FALSE]
Formatters      == {DEFAULT_LOG_FMT, MessageOnlyFmt}

\* Handler.format: self.formatter, or logging._defaultFormatter when None.
EffectiveFormatter(f) == IF f = NoFormatter THEN MessageOnlyFmt ELSE f

\* datetime.datetime.fromtimestamp(created)
fromtimestamp(created) == <<"datetime", created>>

\* Formatter.formatTime without datefmt: "<time>,<msecs>".
formatTime(created) == <<ToString(created), ":", "0", "0", ",", "0", "0", "7">>

\* Formatter.format: sets message, and asctime when the format uses it; the
\* returned text is what a StreamHandler writes.
FormatterFormat(f, r) ==
    [r EXCEPT !.message = r.msg,
              !.asctime = IF f.usesTime THEN formatTime(r.created) ELSE @]

Render(f, r) ==
    IF f.usesTime
    THEN [fmt |-> f.fmt, levelname |-> r.levelname, hostname |-> r.hostname,
          asctime |-> r.asctime, message |-> r.message]
    ELSE [fmt |-> f.fmt, message |-> r.message]

\* format, lines 187-196.
AddCustomFields(r) ==
    [r EXCEPT !.hostname  = IF @ = Absent THEN LocalHost ELSE @,
              !.datetime  = IF @ = AbsentDt THEN fromtimestamp(r.created) ELSE @,
              !.exception = IF r.exc_info THEN "Traceback" ELSE NoneVal]

\* format, lines 198-199.
SuperFormat(f, r) == FormatterFormat(EffectiveFormatter(f), AddCustomFields(r))

\* format, line 202: len(record.asctime) needs the attribute.
AsctimeMissing(f, r) == SuperFormat(f, r).asctime = AbsentAsc

\* format, lines 206-221: unicode(value) decodes a byte string as ASCII and
\* raises UnicodeDecodeError on any other byte; an ASCII byte string and the
\* unicode object it becomes are equal values.
CoercionFails(f, r) == SuperFormat(f, r).message \in NonAsciiStr

FormatRaises(f, r) == AsctimeMissing(f, r) \/ CoercionFails(f, r)

\* The record as format leaves it when it returns.
Formatted(f, r) ==
    [SuperFormat(f, r) EXCEPT !.asctime = MassageAsctime(@)]

\* The record as format leaves it when it raises: line 202 raises before
\* any change to asctime, line 221 after it.
PartlyFormatted(f, r) ==
    IF AsctimeMissing(f, r) THEN SuperFormat(f, r) ELSE Formatted(f, r)

\* emit, lines 133-152.
EntryOf(r) ==
    [datetime |-> r.datetime, asctime |-> r.asctime, created |-> r.created,
     hostname |-> r.hostname, levelname |-> r.levelname, levelno |-> r.levelno,
     message |-> r.message, exception |-> r.exception]

\* Events, required=True: the column is NOT NULL.  An empty string is a
\* value, not NULL.
RequiredOk_HostnameOptional(e) ==
    /\ e.datetime # AbsentDt
    /\ e.message # NoneVal

RequiredOk(e) ==
    /\ e.datetime # AbsentDt
    /\ e.hostname # NoneVal
    /\ e.message # NoneVal

(***************************************************************************)
(* DatabaseHandler and get_logger.                                         *)
(***************************************************************************)
\* __init__: no formatter yet, and a fresh StreamHandler with none either.
DatabaseHandler == [formatter |-> NoFormatter, fallback |-> NoFormatter]

WithFormatter_OwnOnly(h, formatter) ==
    [h EXCEPT !.formatter = formatter]

WithFormatter(h, formatter) ==
    [h EXCEPT !.formatter = formatter, !.fallback = formatter]

AddHandler(hs, h) == Append(hs, h)

get_logger(lvl) ==
    /\ pc = "idle"
    /\ getLoggerCalls < MaxHandlers
    /\ level' = lvl
    /\ handlers' = AddHandler(handlers, WithFormatter(DatabaseHandler, DEFAULT_LOG_FMT))
    /\ getLoggerCalls' = getLoggerCalls + 1
    /\ UNCHANGED <<envVars, initVars, emitVars, ascVars, connVars>>

setFormatter(i, formatter) ==
    /\ pc = "idle"
    /\ handlers' = [handlers EXCEPT ![i] = WithFormatter(@, formatter)]
    /\ UNCHANGED <<level, getLoggerCalls, envVars, initVars, emitVars, ascVars, connVars>>

(***************************************************************************)
(* A logging call and the emit of each handler.                            *)
(***************************************************************************)
quiet == <<envVars, initVars, logVars, ascVars, connVars>>

\* logger.debug(...), ..., logger.critical(...): a record at or above the
\* logger's level is handed to every handler in turn.
\* MaxCalls and MaxEmits bound the calls and the emit invocations of one
\* behaviour.
Log(levelname, msg, hostname, exc_info) ==
    /\ pc = "idle"
    /\ calls < MaxCalls
    /\ handlers # <<>>
    /\ calls' = calls + 1
    /\ rec' = LogRecord(calls + 1, levelname, msg, hostname, exc_info)
    /\ trace' = <<>>
    /\ emits' = 0
    /\ IF LevelNo[levelname] >= LevelNo[level]
       THEN /\ dispatched + Len(handlers) <= MaxEmits
            /\ dispatched' = dispatched + Len(handlers)
            /\ pc' = "format" /\ hidx' = 1
       ELSE /\ dispatched' = dispatched
            /\ pc' = "idle" /\ hidx' = 0
    /\ UNCHANGED <<session, db, stderr, quiet>>

\* emit returned: Logger.callHandlers goes on to the next handler.
Returned ==
    /\ emits' = emits + 1
    /\ IF hidx < Len(handlers)
       THEN pc' = "format" /\ hidx' = hidx + 1
       ELSE pc' = "idle" /\ hidx' = hidx

\* emit raised: the exception leaves callHandlers and the logging call.
Raised ==
    /\ emits' = emits + 1
    /\ pc' = "idle"
    /\ hidx' = hidx

\* emit, line 132.
FormatOk ==
    /\ pc = "format"
    /\ ~FormatRaises(handlers[hidx].formatter, rec)
    /\ rec' = Formatted(handlers[hidx].formatter, rec)
    /\ trace' = <<"format">>
    /\ pc' = "entry"
    /\ UNCHANGED <<session, db, stderr, hidx, emits, calls, dispatched, quiet>>

FormatFails ==
    /\ pc = "format"
    /\ FormatRaises(handlers[hidx].formatter, rec)
    /\ rec' = PartlyFormatted(handlers[hidx].formatter, rec)
    /\ trace' = <<"format", "raise">>
    /\ Raised
    /\ UNCHANGED <<session, db, stderr, calls, dispatched, quiet>>

\* emit, lines 133-152: the new entity is pending in the session.
NewEntry ==
    /\ pc = "entry"
    /\ session' = Append(session, EntryOf(rec))
    /\ trace' = Append(trace, "entry")
    /\ pc' = "commit"
    /\ UNCHANGED <<db, stderr, rec, hidx, emits, calls, dispatched, quiet>>

\* emit, line 154: the commit stores every pending entry.
CommitOk ==
    /\ pc = "commit"
    /\ bind # Unbound
    /\ \A i \in 1..Len(session) : RequiredOk(session[i])
    /\ db' = db \o session
    /\ session' = <<>>
    /\ trace' = trace \o <<"commit", "return">>
    /\ Returned
    /\ UNCHANGED <<stderr, rec, calls, dispatched, quiet>>

\* emit, lines 154-155: the commit raises (no binding, a violated
\* constraint, or the storage failing) and nothing is stored.
CommitFails ==
    /\ pc = "commit"
    /\ trace' = trace \o <<"commit", "except">>
    /\ pc' = "rollback"
    /\ UNCHANGED <<session, db, stderr, rec, hidx, emits, calls, dispatched, quiet>>

\* emit, line 156.
RollbackOk ==
    /\ pc = "rollback"
    /\ session' = <<>>
    /\ trace' = Append(trace, "rollback")
    /\ pc' = "handleError"
    /\ UNCHANGED <<db, stderr, rec, hidx, emits, calls, dispatched, quiet>>

\* emit, line 156: the rollback itself raises on a failing connection; the
\* exception leaves emit, and the pending entries are discarded or not.
RollbackFails ==
    /\ pc = "rollback"
    /\ bind # Unbound
    /\ session' \in {session, <<>>}
    /\ trace' = trace \o <<"rollback", "raise">>
    /\ Raised
    /\ UNCHANGED <<db, stderr, rec, calls, dispatched, quiet>>

\* emit, line 157, and handleError: the fallback StreamHandler formats the
\* record with its own formatter and writes it.
handleError ==
    /\ pc = "handleError"
    /\ LET f == EffectiveFormatter(handlers[hidx].fallback)
           r == FormatterFormat(f, rec)
       IN  /\ rec' = r
           /\ stderr' = Append(stderr, [record |-> r.created, text |-> Render(f, r)])
    /\ trace' = trace \o <<"handleError", "return">>
    /\ Returned
    /\ UNCHANGED <<session, db, calls, dispatched, quiet>>

(***************************************************************************)
(* Initial values.                                                         *)
(***************************************************************************)
NoInit == [args |-> InitArgs("", "", NoneVal, NonePw, ""), outcome |-> "none"]
NoArgs == [flavor |-> "", username |-> "", password |-> <<>>, server |-> "",
           port |-> 0, database |-> ""]

FilePw  == <<"f", " ">>
OtherPw == <<"o">>
Files ==
    { [exists |-> FALSE, lines |-> <<>>],
      [exists |-> TRUE,  lines |-> <<>>],
      [exists |-> TRUE,  lines |-> << <<"srv", FilePw>> >>],
      [exists |-> TRUE,  lines |-> << <<"other", OtherPw>> >>],
      [exists |-> TRUE,  lines |-> << <<"srv", OtherPw>>, <<"srv", FilePw>> >>],
      [exists |-> TRUE,  lines |-> << <<"srv", FilePw>>, <<"srv">> >>] }

TestDb == "/tmp/test.db"

InitEnvAny ==
    /\ environ \in [USER : {Unset, "alice"}, LOGNAME : {Unset, "bob"}]
    /\ fs \in [Users -> Files]
    /\ dbfiles \in {{}, {TestDb}}

\* The environment of an operator's session: $USER is set and the
\* credentials file of that user names the server.
InitEnvUsual ==
    /\ environ = [USER |-> "alice", LOGNAME |-> Unset]
    /\ fs = [u \in Users |-> IF u = "alice"
                             THEN [exists |-> TRUE, lines |-> << <<"srv", FilePw>> >>]
                             ELSE [exists |-> FALSE, lines |-> <<>>]]

InitBinding ==
    /\ bind = Unbound
    /\ schema = FALSE
    /\ initLog = NoInit
    /\ inits = 0

InitLogger ==
    /\ handlers = <<>>
    /\ level = "NOTSET"
    /\ getLoggerCalls = 0

InitEmit ==
    /\ session = <<>>
    /\ db = <<>>
    /\ stderr = <<>>
    /\ pc = "idle"
    /\ rec = NoRec
    /\ hidx = 0
    /\ trace = <<>>
    /\ emits = 0
    /\ calls = 0
    /\ dispatched = 0

InitAsc  == ascIn = <<>> /\ ascOut = <<>> /\ ascDone = FALSE
InitConn == connArgs = NoArgs /\ connOut = <<>> /\ connDone = FALSE

(***************************************************************************)
(* SpecAsctime: the asctime post-processing on every short rendering.      *)
(***************************************************************************)
InitAsctime ==
    /\ InitEnvUsual /\ dbfiles = {} /\ InitBinding /\ InitLogger /\ InitEmit /\ InitConn
    /\ ascIn \in SeqsUpTo(AscChars, MaxLen)
    /\ ascOut = <<>>
    /\ ascDone = FALSE

PostProcessAsctime ==
    /\ ~ascDone
    /\ ascOut' = MassageAsctime(ascIn)
    /\ ascDone' = TRUE
    /\ UNCHANGED <<ascIn, envVars, initVars, logVars, emitVars, connVars>>

NextAsctime == PostProcessAsctime
SpecAsctime == InitAsctime /\ [][NextAsctime]_vars

IsDigit(c) == c \in Digits

EndsInCommaAnd3Digits(a) ==
    /\ Len(a) >= 4
    /\ a[Len(a) - 3] = ","
    /\ \A i \in (Len(a) - 2)..Len(a) : IsDigit(a[i])

CommaToPeriod(a) == [i \in 1..Len(a) |-> IF i = Len(a) - 3 THEN "." ELSE a[i]]

\* C6 as stated: a rendering ending in a comma and exactly 3 digits gets the
\* comma replaced by a period, and every other rendering is left unchanged.
C6_AsStated ==
    ascDone => IF EndsInCommaAnd3Digits(ascIn)
               THEN ascOut = CommaToPeriod(ascIn)
               ELSE ascOut = ascIn

\* C6 amended: the comma is replaced whenever the rendering has at least 4
\* characters and its 4th-from-last character is a comma, whatever the last
\* three characters are; every other rendering is left unchanged.
C6_CommaToPeriod ==
    ascDone => IF Len(ascIn) >= 4 /\ ascIn[Len(ascIn) - 3] = ","
               THEN ascOut = CommaToPeriod(ascIn)
               ELSE ascOut = ascIn

C6_Witness ==
    /\ ascDone
    /\ EndsInCommaAnd3Digits(ascIn)
    /\ Len(ascIn) = 5
    /\ ascOut # ascIn

(***************************************************************************)
(* SpecConn: _db_connection_str on every combination of small arguments.   *)
(***************************************************************************)
Flavors   == {"sqlite", "mssql", "mssql+pyodbc", "mysql", "postgresql"}
Ports     == {0, -1, 1433, 5432}
PwChars   == {"p", "@", " "}
Passwords == SeqsUpTo(PwChars, MaxPwLen) \ {<<>>}
Databases == {"d", TestDb}

InitConnStr ==
    /\ InitEnvUsual /\ dbfiles = {} /\ InitBinding /\ InitLogger /\ InitEmit /\ InitAsc
    /\ connArgs \in [flavor : Flavors, username : {"u"}, password : Passwords,
                     server : {"h"}, port : Ports, database : Databases]
    /\ connOut = <<>>
    /\ connDone = FALSE

BuildConnectionString ==
    /\ ~connDone
    /\ connOut' = _db_connection_str(connArgs.flavor, connArgs.username,
                                     connArgs.password, connArgs.server,
                                     connArgs.port, connArgs.database)
    /\ connDone' = TRUE
    /\ UNCHANGED <<connArgs, envVars, initVars, logVars, emitVars, ascVars>>

NextConn == BuildConnectionString
SpecConn == InitConnStr /\ [][NextConn]_vars

PortGiven == connArgs.port # 0 /\ connArgs.port # -1
DbSegment == "/" \o connArgs.database
PortSegments == {":" \o ToString(connArgs.port), "?port=" \o ToString(connArgs.port)}

DbBeforePort ==
    \E i, j \in 1..Len(connOut) :
        i < j /\ connOut[i] = DbSegment /\ connOut[j] \in PortSegments
PortBeforeDb ==
    \E i, j \in 1..Len(connOut) :
        i < j /\ connOut[i] \in PortSegments /\ connOut[j] = DbSegment
NoPortSegment == \A i \in 1..Len(connOut) : connOut[i] \notin PortSegments

\* C9 as stated: with a port given, flavor "mssql" puts the database segment
\* before the port segment and every other flavor puts the port segment first.
C9_AsStated ==
    (connDone /\ PortGiven) =>
        IF connArgs.flavor = "mssql" THEN DbBeforePort ELSE PortBeforeDb

\* C9 amended: with a port given, every flavor whose name starts with "mssql"
\* puts the database segment before the port segment, "sqlite" yields the
\* file URL with no port segment at all, and every other flavor puts the port
\* segment before the database segment.
C9_SegmentOrder ==
    (connDone /\ PortGiven) =>
        /\ DbBeforePort \/ PortBeforeDb \/ NoPortSegment
        /\ DbBeforePort <=> startswith_mssql(connArgs.flavor)
        /\ NoPortSegment <=> connArgs.flavor = "sqlite"
        /\ PortBeforeDb <=> (connArgs.flavor \notin StartsWithMssql \cup {"sqlite"})

C9_Witness ==
    /\ connDone
    /\ connArgs.flavor = "mssql"
    /\ connArgs.port = 1433
    /\ DbBeforePort

(***************************************************************************)
(* SpecInit: init called in every small environment.                       *)
(***************************************************************************)
InitInit ==
    /\ InitEnvAny /\ InitBinding /\ InitLogger /\ InitEmit /\ InitAsc /\ InitConn

CallInit ==
    /\ inits < MaxInits
    /\ pc = "idle"
    /\ \E username \in {NoneVal, "carol"}, password \in {NonePw, <<"p", "@">>},
          db_type \in {"sqlite", "mssql", "mysql"} :
          init("srv", TestDb, username, password, db_type)
    /\ UNCHANGED <<logVars, emitVars, ascVars, connVars>>

NextInit == CallInit
SpecInit == InitInit /\ [][NextInit]_vars

UsernameUnresolved(a) ==
    a.username = NoneVal /\ environ.USER = Unset /\ environ.LOGNAME = Unset

EffectiveUser(a) ==
    IF a.username # NoneVal THEN a.username
    ELSE IF environ.USER # Unset THEN environ.USER ELSE environ.LOGNAME

PasswordUnresolved(a) ==
    /\ a.password = NonePw
    /\ LET f == fs[EffectiveUser(a)]
       IN  \/ ~f.exists
           \/ \E i \in 1..Len(f.lines) : Len(f.lines[i]) # 2
           \/ \A i \in 1..Len(f.lines) : f.lines[i][1] # a.server

ShouldFail(a) ==
    /\ a.db_type # "sqlite"
    /\ UsernameUnresolved(a) \/ PasswordUnresolved(a)

\* C7: init fails with InvalidConfiguration exactly when the backend is not
\* sqlite and the username or the password cannot be resolved; a failing init
\* leaves the binding as it was and creates no schema.
C7_InitFailure ==
    /\ [](inits > 0 => (initLog.outcome = "InvalidConfiguration" <=> ShouldFail(initLog.args)))
    /\ [][(inits' # inits /\ initLog'.outcome = "InvalidConfiguration")
            => (bind' = bind /\ schema' = schema /\ dbfiles' = dbfiles)]_vars

C7_Witness ==
    /\ inits = 2
    /\ initLog.outcome = "InvalidConfiguration"
    /\ initLog.args.username = NoneVal
    /\ environ.USER = Unset
    /\ bind # Unbound

(***************************************************************************)
(* Spec: init, get_logger, setFormatter and logging calls of one thread.   *)
(***************************************************************************)
\* The process before any init (no binding: every commit fails), or after
\* the init('', '/tmp/test.db', db_type='sqlite') of test.py.
SqliteBind == _db_connection_str("sqlite", NoneVal, NonePw, "", 0, TestDb)
SqliteInit == [args |-> InitArgs("", TestDb, NoneVal, NonePw, "sqlite"), outcome |-> "ok"]

Init ==
    /\ InitEnvUsual /\ InitLogger /\ InitEmit /\ InitAsc /\ InitConn
    /\ \/ InitBinding /\ dbfiles = {}
       \/ bind = SqliteBind /\ schema = TRUE /\ initLog = SqliteInit /\ inits = 1
          /\ dbfiles = {TestDb}

\* The logging calls tried: <<levelname, msg, extra hostname, exc_info>>.
LogCalls ==
    { <<"CRITICAL", "critical error", Absent,  FALSE>>,
      <<"DEBUG",    "debug message",  Absent,  FALSE>>,
      <<"CRITICAL", "",               Absent,  FALSE>>,
      <<"CRITICAL", "critical error", NoneVal, FALSE>>,
      <<"CRITICAL", "critical error", "",      TRUE>>,
      <<"CRITICAL", "critical error", "db1",   TRUE>> }
      \cup {<<"CRITICAL", m, Absent, FALSE>> : m \in NonAsciiStr}

Next ==
    \/ \E lvl \in {"DEBUG", "WARNING"} : get_logger(lvl)
    \/ \E i \in 1..Len(handlers), f \in Formatters : setFormatter(i, f)
    \/ \E c \in LogCalls : Log(c[1], c[2], c[3], c[4])
    \/ FormatOk
    \/ FormatFails
    \/ NewEntry
    \/ CommitOk
    \/ CommitFails
    \/ RollbackOk
    \/ RollbackFails
    \/ handleError

Spec == Init /\ [][Next]_vars

(***************************************************************************)
(* Properties of emit.                                                     *)
(***************************************************************************)
EmitFinished == trace # <<>> /\ Last(trace) \in {"return", "raise"}
CommitFailed == \E i \in 1..Len(trace) : trace[i] = "except"

RowsOf(created)  == Cardinality({i \in 1..Len(db) : db[i].created = created})
LinesOf(created) == Cardinality({i \in 1..Len(stderr) : stderr[i].record = created})

AfterInit == inits > 0 /\ initLog.outcome = "ok"

\* C1: with one handler attached and init done, a finished emit has either
\* stored one row holding the record's field values or written the record to
\* the fallback stream, never both and never neither.
C1_AsStated ==
    (AfterInit /\ Len(handlers) = 1 /\ EmitFinished) =>
        \/ /\ RowsOf(rec.created) = 1
           /\ \E i \in 1..Len(db) : db[i] = EntryOf(rec)
           /\ LinesOf(rec.created) = 0
        \/ /\ RowsOf(rec.created) = 0
           /\ LinesOf(rec.created) = 1

\* C2: emit never raises, whatever the record and whichever storage call
\* fails.
C2_AsStated == EmitFinished => Last(trace) = "return"

\* C3: once the commit has failed, the emit runs exactly one commit attempt,
\* then one rollback, then one handleError that hands the same record to the
\* fallback handler, and then returns.
FailedCommitPath ==
    <<"format", "entry", "commit", "except", "rollback", "handleError", "return">>

C3_AsStated ==
    CommitFailed =>
        /\ Len(trace) <= Len(FailedCommitPath)
        /\ trace = SubSeq(FailedCommitPath, 1, Len(trace))
        /\ EmitFinished => /\ trace = FailedCommitPath
                           /\ stderr # <<>>
                           /\ Last(stderr).record = rec.created

\* C4 as stated: every stored row has a non-empty hostname and a non-empty
\* message.
C4_AsStated ==
    \A i \in 1..Len(db) :
        /\ db[i].hostname \notin {Absent, NoneVal, ""}
        /\ db[i].message \notin {Absent, NoneVal, ""}

\* C4 amended: every stored row has a hostname and a message that are present
\* and not None; the empty string satisfies the required constraint.
C4_RequiredFields ==
    \A i \in 1..Len(db) :
        /\ db[i].hostname \notin {Absent, NoneVal}
        /\ db[i].message \notin {Absent, NoneVal}

C4_Witness ==
    /\ \E i \in 1..Len(db) : db[i].message = ""
    /\ \E i \in 1..Len(stderr) :
           /\ stderr[i].text.fmt = DEFAULT_LOG_FMT.fmt
           /\ stderr[i].text.hostname = NoneVal

\* C5: k calls of get_logger attach k handlers, and a logging call that
\* passes the threshold runs emit k times and, when no commit fails, stores
\* k rows for its record.
C5_AsStated ==
    /\ [](Len(handlers) = getLoggerCalls)
    /\ [][(pc # "idle" /\ pc' = "idle") =>
            /\ emits' = Len(handlers)
            /\ (LinesOf(rec.created)' = 0 /\ Last(trace') = "return")
                   => RowsOf(rec.created)' = Len(handlers)]_vars

C10_AsStated ==
    /\ [](EmitFinished /\ Last(trace) = "return" => session = <<>>)
    /\ [][db' # db => db' = Append(db, EntryOf(rec))]_vars

====
